---------------------------- MODULE Spec2Model ----------------------------
(***************************************************************************)
(* State-machine model of the SMS spam classifier notebook                 *)
(* (src/sms_classify.ipynb): data preparation (vectorize, bias column,     *)
(* class balancing, shuffle, train/test split), training by gradient       *)
(* descent, batch prediction and single-message prediction.                *)
(*                                                                         *)
(* Conventions.                                                            *)
(*  - Index VALUES are 0-based as in numpy (pos, neg, subset, train, test   *)
(*    hold 0-based row numbers); At(s, i) reads position i of a sequence.  *)
(*  - A message is a sequence of word ids: the text after preprocess and   *)
(*    tokenization.  Word ids are ordered as the words sort.               *)
(*  - Reals are fixed point numbers in units of 1/Scale.                   *)
(***************************************************************************)
EXTENDS Integers, Sequences, FiniteSets

VARIABLES
    pc,           \* position in the notebook
    numTrain,     \* line 79
    numTest,      \* line 80
    numFeatures,  \* line 81
    rng,          \* state of the global numpy generator
    labels,       \* line 88: label per message, "spam" / "ham"
    docs,         \* line 89: the messages
    vectorizer,   \* fitted vocabulary of the CountVectorizer, in column order
    X,            \* design matrix, a sequence of rows
    y,            \* label vector
    m,            \* line 120
    n,            \* line 120
    pos,          \* line 128
    neg,          \* line 129
    npos,         \* line 131
    subset,       \* line 134, shuffled in place at line 137
    train,        \* line 143
    test,         \* line 144
    X_train,      \* line 146
    y_train,      \* line 147
    X_test,       \* line 149
    y_test,       \* line 150
    test_docs,    \* line 153
    theta,        \* line 202, then line 210
    alpha,        \* line 206
    iters,        \* line 207
    J_history,    \* line 211
    gd_theta,     \* gradient_descent: its current parameter vector
    gd_J,         \* gradient_descent: the cost history it is building
    gd_it,        \* gradient_descent: iterations done
    msg,          \* lines 358, 364: the message to classify
    x,            \* lines 359, 365
    p,            \* lines 249, 360, 366
    y_predict,    \* lines 250, 361, 367
    raw,          \* preprocess: the message as it was passed in
    doc           \* preprocess: line 98, rewritten at lines 101-103

prepVars == <<numTrain, numTest, numFeatures, rng, labels, docs, vectorizer,
              X, y, m, n, pos, neg, npos, subset, train, test,
              X_train, y_train, X_test, y_test, test_docs>>

trainVars == <<theta, alpha, iters, J_history, gd_theta, gd_J, gd_it>>

predVars == <<msg, x, p, y_predict>>

textVars == <<raw, doc>>

vars == <<pc, prepVars, trainVars, predVars, textVars>>

---------------------------------------------------------------------------
(* Bounds of the model *)

\* largest number of messages in the data file
MaxDocs == 3

\* largest numTrain and numTest tried
MaxSplit == 2

\* largest iteration count tried
MaxIters == 2

\* the messages the data file is drawn from (tokenized)
DocSet == { <<1, 1, 2>>, <<2, 3>> }

\* values of max_features tried
FeatureLimits == {1, 2}

\* learning rates tried, in units of 1/Scale (5 is the notebook's 0.005)
Alphas == {-5, 0, 5}

\* iteration counts tried
IterCounts == -1..MaxIters

\* longest raw message given to preprocess
MaxChars == 5

\* the characters raw messages are made of: an upper-case letter, a
\* lower-case letter, the two currency signs and the characters of "://"
Chars == {"A", "b", "$", "£", ":", "/"}

\* messages classified one at a time; word 4 is in no message of the file
MsgSet == { <<1, 1, 2>>, <<4>>, <<3, 4>> }

---------------------------------------------------------------------------
(* Helpers for 0-based numpy indexing *)

Unset == <<>>

At(s, i) == s[i + 1]

InRange(s, i) == i >= 0 /\ i < Len(s)

\* np.arange(k)
arange(k) == [i \in 1..(IF k > 0 THEN k ELSE 0) |-> i - 1]

\* a[idx] with idx an integer array: fancy indexing
Take(a, idx) == [i \in 1..Len(idx) |-> At(a, idx[i])]

\* fancy indexing raises IndexError when an index is out of bounds
TakeOk(a, idx) == \A i \in 1..Len(idx) : InRange(a, idx[i])

\* np.nonzero(v == c)[0]: the positions holding c, ascending
\* (the scan of positions lo..hi is halved, which keeps the evaluation
\* shallow on long arrays)
RECURSIVE NonzeroFrom(_, _, _, _)
NonzeroFrom(v, c, lo, hi) ==
    IF lo > hi THEN <<>>
    ELSE IF lo = hi THEN (IF v[lo] = c THEN <<lo - 1>> ELSE <<>>)
    ELSE NonzeroFrom(v, c, lo, (lo + hi) \div 2)
           \o NonzeroFrom(v, c, (lo + hi) \div 2 + 1, hi)

Nonzero(v, c) == NonzeroFrom(v, c, 1, Len(v))

\* a[0:k]
Slice0(a, k) == SubSeq(a, 1, IF k < Len(a) THEN k ELSE Len(a))

Range(s) == {s[i] : i \in 1..Len(s)}

---------------------------------------------------------------------------
(* The numpy generator: np.random.seed and np.random.shuffle *)

RngM == 8
RngA == 5
RngC == 3

\* np.random.seed(s): the generator state is a function of the seed alone
SeedState(s) == s % RngM

\* one step of the generator
RngNext(s) == (RngA * s + RngC) % RngM

Swap(a, i, j) == [a EXCEPT ![i + 1] = At(a, j), ![j + 1] = At(a, i)]

\* one iteration of the shuffle loop: j drawn from [0, i], swap
ShuffleStep(a, s, i) ==
    LET s1 == RngNext(s)
        j  == s1 % (i + 1)
    IN  <<Swap(a, i, j), s1>>

\* RandomState.shuffle: for i = len-1 down to 1, j drawn from [0, i], swap.
\* Returns the pair <<shuffled array, generator state>>. ShuffleFrom runs
\* the iterations i = hi down to lo, the upper half of them first.
RECURSIVE ShuffleFrom(_, _, _, _)
ShuffleFrom(a, s, hi, lo) ==
    IF hi < lo THEN <<a, s>>
    ELSE IF hi = lo THEN ShuffleStep(a, s, hi)
    ELSE LET mid == (hi + lo) \div 2
         IN  CHOOSE t \in {ShuffleFrom(r[1], r[2], mid, lo) :
                              r \in {ShuffleFrom(a, s, hi, mid + 1)}} : TRUE

Shuffle(a, s) == ShuffleFrom(a, s, Len(a) - 1, 1)

---------------------------------------------------------------------------
(* CountVectorizer *)

RECURSIVE CountIn(_, _)
CountIn(w, d) ==
    IF d = <<>> THEN 0
    ELSE (IF Head(d) = w THEN 1 ELSE 0) + CountIn(w, Tail(d))

RECURSIVE SumOver(_, _, _)
SumOver(w, ds, i) ==
    IF i > Len(ds) THEN 0 ELSE CountIn(w, ds[i]) + SumOver(w, ds, i + 1)

\* total count of word w in the corpus
TermFreq(w, ds) == SumOver(w, ds, 1)

Terms(ds) == UNION {Range(ds[i]) : i \in 1..Len(ds)}

Min2(a, b) == IF a < b THEN a ELSE b

\* max_features keeps the most frequent terms; ties at the cut are broken
\* by an unstable argsort, so any top-k set may be kept
TopSets(ds, k) ==
    {K \in SUBSET Terms(ds) :
        /\ Cardinality(K) = Min2(k, Cardinality(Terms(ds)))
        /\ \A a \in K : \A b \in Terms(ds) \ K :
              TermFreq(a, ds) >= TermFreq(b, ds)}

\* the kept terms in sorted order: the columns of the count matrix
RECURSIVE SortedSeq(_)
SortedSeq(S) ==
    IF S = {} THEN <<>>
    ELSE LET lo == CHOOSE a \in S : \A b \in S : a <= b
         IN  <<lo>> \o SortedSeq(S \ {lo})

\* mutant: words outside the vocabulary are counted in the last column
TransformOovBucket(voc, d) ==
    [j \in 1..Len(voc) |->
        CountIn(voc[j], d)
          + (IF j = Len(voc)
             THEN Cardinality({i \in 1..Len(d) : d[i] \notin Range(voc)})
             ELSE 0)]

\* vectorizer.transform of one message: counts of the vocabulary words,
\* words outside the vocabulary are ignored
Transform(voc, d) == [j \in 1..Len(voc) |-> CountIn(voc[j], d)]

---------------------------------------------------------------------------
(* Cell 1: load and prep data *)

Init ==
    /\ pc = "start"
    /\ rng \in 0..(RngM - 1)
    /\ numTrain = 0 /\ numTest = 0 /\ numFeatures = 0
    /\ labels = Unset /\ docs = Unset /\ vectorizer = Unset
    /\ X = Unset /\ y = Unset /\ m = 0 /\ n = 0
    /\ pos = Unset /\ neg = Unset /\ npos = 0 /\ subset = Unset
    /\ train = Unset /\ test = Unset
    /\ X_train = Unset /\ y_train = Unset
    /\ X_test = Unset /\ y_test = Unset /\ test_docs = Unset
    /\ theta = Unset /\ alpha = 0 /\ iters = 0 /\ J_history = Unset
    /\ gd_theta = Unset /\ gd_J = Unset /\ gd_it = 0
    /\ msg = Unset /\ x = Unset /\ p = Unset /\ y_predict = Unset
    /\ raw = Unset /\ doc = Unset

\* mutant: the generator is not seeded and keeps the state it had
SeedRngMissing == rng

\* line 83: np.random.seed(1)
SeedRng == SeedState(1)

\* lines 79-83: the sizes (small values stand for 1000, 494, 3000) and the seed

Setup ==
    /\ pc = "start"
    /\ \E a \in 1..MaxSplit, b \in 1..MaxSplit, f \in FeatureLimits :
          /\ numTrain' = a
          /\ numTest' = b
          /\ numFeatures' = f
    /\ rng' = SeedRng
    /\ pc' = "setup"
    /\ UNCHANGED <<trainVars, predVars, textVars>>
    /\ UNCHANGED <<labels, docs, vectorizer, X, y, m, n, pos, neg, npos,
                   subset, train, test, X_train, y_train, X_test, y_test,
                   test_docs>>

\* lines 86-95: one label and one message per line of the file
Load ==
    /\ pc = "setup"
    /\ \E k \in 1..MaxDocs :
          /\ labels' \in [1..k -> {"spam", "ham"}]
          /\ docs' \in [1..k -> DocSet]
    /\ pc' = "loaded"
    /\ UNCHANGED <<trainVars, predVars, textVars>>
    /\ UNCHANGED <<numTrain, numTest, numFeatures, rng, vectorizer, X, y, m,
                   n, pos, neg, npos, subset, train, test, X_train, y_train,
                   X_test, y_test, test_docs>>

\* lines 112-120: fit the vocabulary, count, labels to numbers, shape
Vectorize ==
    /\ pc = "loaded"
    /\ \E K \in TopSets(docs, numFeatures) :
          /\ vectorizer' = SortedSeq(K)
          /\ X' = [i \in 1..Len(docs) |-> Transform(SortedSeq(K), docs[i])]
          /\ n' = Cardinality(K)
    /\ y' = [i \in 1..Len(labels) |-> IF labels[i] = "spam" THEN 1 ELSE 0]
    /\ m' = Len(docs)
    /\ pc' = "vectorized"
    /\ UNCHANGED <<trainVars, predVars, textVars>>
    /\ UNCHANGED <<numTrain, numTest, numFeatures, rng, labels, docs, pos,
                   neg, npos, subset, train, test, X_train, y_train, X_test,
                   y_test, test_docs>>

\* line 123: X = np.column_stack([np.ones(m), X])
ColumnStackOnes(M) == [i \in 1..Len(M) |-> <<1>> \o M[i]]

AddBias ==
    /\ pc = "vectorized"
    /\ X' = ColumnStackOnes(X)
    /\ pc' = "biased"
    /\ UNCHANGED <<trainVars, predVars, textVars>>
    /\ UNCHANGED <<numTrain, numTest, numFeatures, rng, labels, docs,
                   vectorizer, y, m, n, pos, neg, npos, subset, train, test,
                   X_train, y_train, X_test, y_test, test_docs>>

\* line 134: np.concatenate([pos, neg[0:len(pos)]])
BalancedSubset(ps, ns) == ps \o Slice0(ns, Len(ps))

\* lines 128-134
Balance ==
    /\ pc = "biased"
    /\ pos' = Nonzero(y, 1)
    /\ neg' = Nonzero(y, 0)
    /\ npos' = Len(Nonzero(y, 1))
    /\ subset' = BalancedSubset(Nonzero(y, 1), Nonzero(y, 0))
    /\ pc' = "balanced"
    /\ UNCHANGED <<trainVars, predVars, textVars>>
    /\ UNCHANGED <<numTrain, numTest, numFeatures, rng, labels, docs,
                   vectorizer, X, y, m, n, train, test, X_train, y_train,
                   X_test, y_test, test_docs>>

\* mutant: y is re-indexed by the subset as it was before the shuffle
ShuffleCellStaleLabels ==
    /\ pc = "balanced"
    /\ subset' = Shuffle(subset, rng)[1]
    /\ rng' = Shuffle(subset, rng)[2]
    /\ X' = Take(X, subset')
    /\ y' = Take(y, subset)
    /\ pc' = "shuffled"
    /\ UNCHANGED <<trainVars, predVars, textVars>>
    /\ UNCHANGED <<numTrain, numTest, numFeatures, labels, docs, vectorizer,
                   m, n, pos, neg, npos, train, test, X_train, y_train,
                   X_test, y_test, test_docs>>

\* lines 137-140: shuffle subset in place, then re-index X and y by it
ShuffleCell ==
    /\ pc = "balanced"
    /\ subset' = Shuffle(subset, rng)[1]
    /\ rng' = Shuffle(subset, rng)[2]
    /\ X' = Take(X, subset')
    /\ y' = Take(y, subset')
    /\ pc' = "shuffled"
    /\ UNCHANGED <<trainVars, predVars, textVars>>
    /\ UNCHANGED <<numTrain, numTest, numFeatures, labels, docs, vectorizer,
                   m, n, pos, neg, npos, train, test, X_train, y_train,
                   X_test, y_test, test_docs>>

\* line 143
TrainIdx(k) == arange(k)

\* mutant: the test indices do not start after the training prefix
TestIdxNoOffset(k, t) == arange(t)

\* line 144
TestIdx(k, t) == [i \in 1..Len(arange(t)) |-> k + arange(t)[i]]

\* mutant: the test messages are picked by position, not through subset
SplitDocsByPosition ==
    /\ pc = "shuffled"
    /\ train' = TrainIdx(numTrain)
    /\ test' = TestIdx(numTrain, numTest)
    /\ IF ~TakeOk(X, train')
       THEN /\ pc' = "index_error"
            /\ UNCHANGED <<X_train, y_train, X_test, y_test, test_docs>>
       ELSE /\ X_train' = Take(X, train')
            /\ y_train' = Take(y, train')
            /\ IF ~TakeOk(X, test')
               THEN /\ pc' = "index_error"
                    /\ UNCHANGED <<X_test, y_test, test_docs>>
               ELSE /\ X_test' = Take(X, test')
                    /\ y_test' = Take(y, test')
                    /\ test_docs' = [i \in 1..Len(test') |->
                                        At(docs, test'[i])]
                    /\ pc' = "split"
    /\ UNCHANGED <<trainVars, predVars, textVars>>
    /\ UNCHANGED <<numTrain, numTest, numFeatures, rng, labels, docs,
                   vectorizer, X, y, m, n, pos, neg, npos, subset>>

\* lines 143-153: the index arrays, then the four slices and the test
\* messages.  X[train,:] raises IndexError before anything is assigned when
\* train reaches past the rows; X[test,:] raises after X_train and y_train
\* were assigned.
Split ==
    /\ pc = "shuffled"
    /\ train' = TrainIdx(numTrain)
    /\ test' = TestIdx(numTrain, numTest)
    /\ IF ~TakeOk(X, train')
       THEN /\ pc' = "index_error"
            /\ UNCHANGED <<X_train, y_train, X_test, y_test, test_docs>>
       ELSE /\ X_train' = Take(X, train')
            /\ y_train' = Take(y, train')
            /\ IF ~TakeOk(X, test')
               THEN /\ pc' = "index_error"
                    /\ UNCHANGED <<X_test, y_test, test_docs>>
               ELSE /\ X_test' = Take(X, test')
                    /\ y_test' = Take(y, test')
                    /\ test_docs' = [i \in 1..Len(test') |->
                                        At(docs, At(subset, test'[i]))]
                    /\ pc' = "split"
    /\ UNCHANGED <<trainVars, predVars, textVars>>
    /\ UNCHANGED <<numTrain, numTest, numFeatures, rng, labels, docs,
                   vectorizer, X, y, m, n, pos, neg, npos, subset>>

---------------------------------------------------------------------------
(* logistic_regression: logistic, cost_function, gradient_descent.         *)
(* Reals are fixed point: the integer v stands for v / Scale.              *)

Scale == 1000

Half == Scale \div 2

\* 1 / (1 + exp(-k)) for k = 0..6, in units of 1/Scale
SigTable == <<500, 731, 881, 953, 982, 993, 998>>

\* the sigmoid of z >= 0, interpolated between the table's points; a
\* positive score gives a value strictly above one half
LogisticPos(z) ==
    LET k == z \div Scale
        f == z % Scale
        v == IF k >= Len(SigTable) - 1 THEN SigTable[Len(SigTable)]
             ELSE SigTable[k + 1]
                    + ((SigTable[k + 2] - SigTable[k + 1]) * f) \div Scale
    IN  IF z > 0 /\ v <= Half THEN Half + 1 ELSE v

\* logistic(z) = 1 / (1 + exp(-z)); logistic(-z) = 1 - logistic(z)
logistic(z) == IF z < 0 THEN Scale - LogisticPos(-z) ELSE LogisticPos(z)

\* -log(h) at h = 1, 10, 50, 100, 250, 500, 750, 1000 (units of 1/Scale)
LogTable == << <<1, 6908>>, <<10, 4605>>, <<50, 2996>>, <<100, 2303>>,
               <<250, 1386>>, <<500, 693>>, <<750, 288>>, <<1000, 0>> >>

\* -log(h) for 0 < h <= 1, interpolated between the table's points
NegLog(h) ==
    LET i == CHOOSE j \in 1..(Len(LogTable) - 1) :
                 LogTable[j][1] <= h /\ h <= LogTable[j + 1][1]
        a == LogTable[i]
        b == LogTable[i + 1]
    IN  a[2] - ((a[2] - b[2]) * (h - a[1])) \div (b[1] - a[1])

RECURSIVE SumSeq(_)
SumSeq(s) == IF s = <<>> THEN 0 ELSE Head(s) + SumSeq(Tail(s))

\* np.dot of two vectors of the same length
Dot(a, b) == SumSeq([j \in 1..Len(a) |-> a[j] * b[j]])

\* mutant: only checks that the second vector is long enough
DotOkLoose(a, b) == Len(a) <= Len(b)

\* np.dot raises ValueError (shapes not aligned) unless the lengths agree
DotOk(a, b) == Len(a) = Len(b)

\* np.dot(M, v): one score per row
MatVec(M, v) == [i \in 1..Len(M) |-> Dot(M[i], v)]

MatVecOk(M, v) == \A i \in 1..Len(M) : DotOk(M[i], v)

\* the hypothesis of every row: logistic(np.dot(M, th))
Hypothesis(M, th) == [i \in 1..Len(M) |-> logistic(MatVec(M, th)[i])]

\* J = -(1/m) * sum_i [ y_i log(h_i) + (1 - y_i) log(1 - h_i) ]
Cost(M, lab, th) ==
    LET h == Hypothesis(M, th)
    IN  SumSeq([i \in 1..Len(M) |->
                   lab[i] * NegLog(h[i])
                     + (1 - lab[i]) * NegLog(Scale - h[i])]) \div Len(M)

\* grad = (1/m) * X^T (h - y)
Gradient(M, lab, th) ==
    LET h == Hypothesis(M, th)
    IN  [j \in 1..Len(th) |->
            SumSeq([i \in 1..Len(M) |->
                       M[i][j] * (h[i] - lab[i] * Scale)]) \div Len(M)]

\* theta := theta - alpha * grad
GDUpdate(M, lab, th, a) ==
    LET g == Gradient(M, lab, th)
    IN  [j \in 1..Len(th) |-> th[j] - (a * g[j]) \div Scale]

\* shape mismatch: rows of X against the labels, columns against theta
ShapesOk(M, lab, th) == Len(M) = Len(lab) /\ MatVecOk(M, th)

\* mutant: the learning rate is not checked
ConfigOkItersOnly(a, k) == k > 0

\* invalid configuration: non-positive learning rate or iteration count
ConfigOk(a, k) == a > 0 /\ k > 0

\* gradient_descent rejects a bad call before it trains
GDAdmit(M, lab, th, a, k) ==
    IF ~ShapesOk(M, lab, th) THEN "shape_error"
    ELSE IF ~ConfigOk(a, k) THEN "config_error"
    ELSE "training"

\* np.zeros(k)
zeros(k) == [j \in 1..k |-> 0]

\* number of columns of a matrix with at least one row
Cols(M) == Len(M[1])

---------------------------------------------------------------------------
(* Cell 2: train *)

\* the call gradient_descent(X_train, y_train, th, alpha, iters), up to its
\* first iteration, with alpha and iters as lines 206-207 set them
GDCall(th) ==
    /\ \E a \in Alphas, k \in IterCounts :
          /\ alpha' = a
          /\ iters' = k
    /\ pc' = GDAdmit(X_train, y_train, th, alpha', iters')
    /\ IF pc' = "training"
       THEN /\ gd_theta' = th
            /\ gd_J' = <<>>
            /\ gd_it' = 0
       ELSE UNCHANGED <<gd_theta, gd_J, gd_it>>

\* lines 200-209: shape of X_train, theta = zeros, alpha, iters, and the
\* call of gradient_descent
TrainCell ==
    /\ pc = "split"
    /\ m' = Len(X_train)
    /\ n' = Cols(X_train)
    /\ theta' = zeros(n')
    /\ GDCall(theta')
    /\ UNCHANGED <<J_history, predVars, textVars>>
    /\ UNCHANGED <<numTrain, numTest, numFeatures, rng, labels, docs,
                   vectorizer, X, y, pos, neg, npos, subset, train, test,
                   X_train, y_train, X_test, y_test, test_docs>>

\* one iteration of gradient_descent: record the cost at the current
\* theta, then update theta
GDStep ==
    /\ pc = "training"
    /\ gd_it < iters
    /\ gd_J' = Append(gd_J, Cost(X_train, y_train, gd_theta))
    /\ gd_theta' = GDUpdate(X_train, y_train, gd_theta, alpha)
    /\ gd_it' = gd_it + 1
    /\ UNCHANGED <<pc, prepVars, textVars, theta, alpha, iters, J_history, predVars>>

\* mutant: the cost history is taken from the wrong element of the result
GDReturnWrongIndex ==
    /\ pc = "training"
    /\ gd_it >= iters
    /\ theta' = gd_theta
    /\ J_history' = gd_theta
    /\ pc' = "trained"
    /\ UNCHANGED <<prepVars, textVars, alpha, iters, gd_theta, gd_J, gd_it, predVars>>

\* gradient_descent returns; lines 210-211
GDReturn ==
    /\ pc = "training"
    /\ gd_it >= iters
    /\ theta' = gd_theta
    /\ J_history' = gd_J
    /\ pc' = "trained"
    /\ UNCHANGED <<prepVars, textVars, alpha, iters, gd_theta, gd_J, gd_it, predVars>>

---------------------------------------------------------------------------
(* Cells 3 and 4.1: predict *)

\* np.round(v, 0): to the nearest integer, a tie to the even one
NpRound(v) ==
    LET q == v \div Scale
        r == v % Scale
    IN  IF 2 * r < Scale THEN q
        ELSE IF 2 * r > Scale THEN q + 1
        ELSE IF q % 2 = 0 THEN q ELSE q + 1

\* lines 249-250: p = logistic(np.dot(X_test, theta)), y_predict = np.round(p, 0)
BatchPrediction ==
    /\ IF MatVecOk(X_test, theta)
       THEN /\ p' = Hypothesis(X_test, theta)
            /\ y_predict' = [i \in 1..Len(p') |-> NpRound(p'[i])]
            /\ pc' = "predicted"
       ELSE /\ pc' = "shape_error"
            /\ UNCHANGED <<p, y_predict>>
    /\ UNCHANGED <<prepVars, textVars, trainVars, msg, x>>

PredictBatch == pc = "trained" /\ BatchPrediction

\* mutant: the 1 is put behind the counts
extract_features_append(voc, d) == Transform(voc, d) \o <<1>>

\* lines 352-355: np.insert(x, 0, 1) flattens the 1 x n count row and puts 1
\* in front
extract_features(voc, d) == <<1>> \o Transform(voc, d)

\* lines 360-361: p = logistic(np.dot(x, theta)), y_predict = int(np.round(p, 0))
SinglePrediction(row) ==
    IF DotOk(row, theta)
    THEN /\ p' = logistic(Dot(row, theta))
         /\ y_predict' = NpRound(p')
         /\ pc' = "demo"
    ELSE /\ pc' = "shape_error"
         /\ UNCHANGED <<p, y_predict>>

\* lines 358-361 and 364-367
PredictOne ==
    /\ pc \in {"predicted", "demo"}
    /\ \E d \in MsgSet :
          /\ msg' = d
          /\ x' = extract_features(vectorizer, d)
    /\ SinglePrediction(x')
    /\ UNCHANGED <<prepVars, textVars, trainVars>>

Next ==
    \/ Setup
    \/ Load
    \/ Vectorize
    \/ AddBias
    \/ Balance
    \/ ShuffleCell
    \/ Split
    \/ TrainCell
    \/ GDStep
    \/ GDReturn
    \/ PredictBatch
    \/ PredictOne

Spec == Init /\ [][Next]_vars

---------------------------------------------------------------------------
(* The produced interface on its own: train, predict_batch and predict_one *)
(* applied to inputs of any shape                                          *)

ApiMatrices == { << <<1, 2>> >>,
                 << <<1, 0>>, <<1, 1>> >>,
                 << <<1, 1, 0>>, <<1, 0, 2>> >> }

ApiLabels == { <<1>>, <<0, 1>>, <<1, 0, 1>> }

ApiThetas == { <<100>>, <<0, 0>>, <<-200, 300>>, <<0, 0, 0>> }

ApiRows == { <<1, 0>>, <<1, 2>>, <<1, 1, 0>> }

InitApi ==
    /\ pc = "api"
    /\ X_train \in ApiMatrices
    /\ y_train \in ApiLabels
    /\ X_test \in ApiMatrices
    /\ theta \in ApiThetas
    /\ x \in ApiRows
    /\ rng = 0
    /\ numTrain = 0 /\ numTest = 0 /\ numFeatures = 0
    /\ labels = Unset /\ docs = Unset /\ vectorizer = Unset
    /\ X = Unset /\ y = Unset /\ m = 0 /\ n = 0
    /\ pos = Unset /\ neg = Unset /\ npos = 0 /\ subset = Unset
    /\ train = Unset /\ test = Unset
    /\ y_test = Unset /\ test_docs = Unset
    /\ alpha = 0 /\ iters = 0 /\ J_history = Unset
    /\ gd_theta = Unset /\ gd_J = Unset /\ gd_it = 0
    /\ msg = Unset /\ p = Unset /\ y_predict = Unset
    /\ raw = Unset /\ doc = Unset

\* train(X, y, initial_theta, alpha, iterations)
ApiTrain ==
    /\ pc = "api"
    /\ GDCall(theta)
    /\ UNCHANGED <<prepVars, textVars, theta, J_history, predVars>>

\* predict_batch(X, theta)
ApiPredictBatch == pc = "api" /\ BatchPrediction

\* predict_one(x, theta)
ApiPredictOne ==
    /\ pc = "api"
    /\ SinglePrediction(x)
    /\ UNCHANGED <<prepVars, textVars, trainVars, msg, x>>

NextApi ==
    \/ ApiTrain
    \/ GDStep
    \/ GDReturn
    \/ ApiPredictBatch
    \/ ApiPredictOne

SpecApi == InitApi /\ [][NextApi]_vars

---------------------------------------------------------------------------
(* Cell 1 with the notebook's own sizes, on data files of the size of      *)
(* sms.txt (747 spam messages and more ham messages than that)             *)

\* numbers of spam lines in the file
SpamCounts == 746..749

\* numbers of ham lines in the file
HamCounts == 748..750

\* the labels of a file of s spam and h ham lines, spam lines first or last
CorpusLabels(s, h, spamFirst) ==
    [i \in 1..(s + h) |->
        IF spamFirst
        THEN (IF i <= s THEN "spam" ELSE "ham")
        ELSE (IF i <= h THEN "ham" ELSE "spam")]

\* the messages of a file of k lines
CorpusDocs(k) == [i \in 1..k |-> IF i % 2 = 0 THEN <<1, 1, 2>> ELSE <<2, 3>>]

\* lines 79-83 as written
SetupNotebook ==
    /\ pc = "start"
    /\ numTrain' = 1000
    /\ numTest' = 494
    /\ numFeatures' = 3000
    /\ rng' = SeedRng
    /\ pc' = "setup"
    /\ UNCHANGED <<trainVars, predVars, textVars>>
    /\ UNCHANGED <<labels, docs, vectorizer, X, y, m, n, pos, neg, npos,
                   subset, train, test, X_train, y_train, X_test, y_test,
                   test_docs>>

\* lines 86-95 on a file of the size of sms.txt
LoadCorpus ==
    /\ pc = "setup"
    /\ \E s \in SpamCounts, h \in HamCounts, spamFirst \in BOOLEAN :
          /\ labels' = CorpusLabels(s, h, spamFirst)
          /\ docs' = CorpusDocs(s + h)
    /\ pc' = "loaded"
    /\ UNCHANGED <<trainVars, predVars, textVars>>
    /\ UNCHANGED <<numTrain, numTest, numFeatures, rng, vectorizer, X, y, m,
                   n, pos, neg, npos, subset, train, test, X_train, y_train,
                   X_test, y_test, test_docs>>

NextNotebook ==
    \/ SetupNotebook
    \/ LoadCorpus
    \/ Vectorize
    \/ AddBias
    \/ Balance
    \/ ShuffleCell
    \/ Split

SpecNotebook == Init /\ [][NextNotebook]_vars

---------------------------------------------------------------------------
(* preprocess, applied to raw messages: a string is a sequence of          *)
(* characters                                                              *)

\* ' __currency__ '
CurrencyToken == <<" ", "_", "_", "c", "u", "r", "r", "e", "n", "c", "y",
                   "_", "_", " ">>

\* ' __url__ '
UrlToken == <<" ", "_", "_", "u", "r", "l", "_", "_", " ">>

\* the characters str.lower changes
UpperChars == {"A"}

\* str.lower on one character
LowerChar(c) == IF c = "A" THEN "a" ELSE c

\* doc.lower()
lower(s) == [i \in 1..Len(s) |-> LowerChar(s[i])]

\* mutant: the pattern holds the dollar sign only
RECURSIVE SubCurrencyDollarOnly(_)
SubCurrencyDollarOnly(s) ==
    IF s = <<>> THEN <<>>
    ELSE (IF Head(s) = "$" THEN CurrencyToken ELSE <<Head(s)>>)
           \o SubCurrencyDollarOnly(Tail(s))

\* re.sub('[£$]', ' __currency__ ', doc)
RECURSIVE SubCurrency(_)
SubCurrency(s) ==
    IF s = <<>> THEN <<>>
    ELSE (IF Head(s) \in {"£", "$"} THEN CurrencyToken ELSE <<Head(s)>>)
           \o SubCurrency(Tail(s))

\* re.sub('\://', ' __url__ ', doc): matches taken left to right, the scan
\* going on behind each match
RECURSIVE SubUrl(_)
SubUrl(s) ==
    IF s = <<>> THEN <<>>
    ELSE IF Len(s) >= 3 /\ SubSeq(s, 1, 3) = <<":", "/", "/">>
         THEN UrlToken \o SubUrl(SubSeq(s, 4, Len(s)))
         ELSE <<Head(s)>> \o SubUrl(Tail(s))

RawMessages == UNION {[1..k -> Chars] : k \in 0..MaxChars}

InitPre ==
    /\ pc = "pre_start"
    /\ raw \in RawMessages
    /\ doc = raw
    /\ rng = 0
    /\ numTrain = 0 /\ numTest = 0 /\ numFeatures = 0
    /\ labels = Unset /\ docs = Unset /\ vectorizer = Unset
    /\ X = Unset /\ y = Unset /\ m = 0 /\ n = 0
    /\ pos = Unset /\ neg = Unset /\ npos = 0 /\ subset = Unset
    /\ train = Unset /\ test = Unset
    /\ X_train = Unset /\ y_train = Unset
    /\ X_test = Unset /\ y_test = Unset /\ test_docs = Unset
    /\ theta = Unset /\ alpha = 0 /\ iters = 0 /\ J_history = Unset
    /\ gd_theta = Unset /\ gd_J = Unset /\ gd_it = 0
    /\ msg = Unset /\ x = Unset /\ p = Unset /\ y_predict = Unset

\* line 101
PreCurrency ==
    /\ pc = "pre_start"
    /\ doc' = SubCurrency(doc)
    /\ pc' = "pre_currency"
    /\ UNCHANGED <<prepVars, trainVars, predVars, raw>>

\* line 102
PreUrl ==
    /\ pc = "pre_currency"
    /\ doc' = SubUrl(doc)
    /\ pc' = "pre_url"
    /\ UNCHANGED <<prepVars, trainVars, predVars, raw>>

\* lines 103-104
PreLower ==
    /\ pc = "pre_url"
    /\ doc' = lower(doc)
    /\ pc' = "pre_done"
    /\ UNCHANGED <<prepVars, trainVars, predVars, raw>>

NextPre ==
    \/ PreCurrency
    \/ PreUrl
    \/ PreLower

SpecPre == InitPre /\ [][NextPre]_vars

---------------------------------------------------------------------------
(* Properties *)

LabelNum(l) == IF l = "spam" THEN 1 ELSE 0

\* the design-matrix row of message d under the fitted vocabulary
FeatureRow(d) == <<1>> \o Transform(vectorizer, d)

\* occurrences of word w in message d
Occurrences(w, d) == Cardinality({i \in 1..Len(d) : d[i] = w})

CountOf(v, c) == Cardinality({i \in 1..Len(v) : v[i] = c})

AfterBias == {"biased", "balanced", "shuffled", "split", "index_error",
              "training", "trained", "config_error", "shape_error",
              "predicted", "demo"}

AfterShuffle == AfterBias \ {"biased", "balanced"}

AfterSplit == AfterShuffle \ {"shuffled"}

AfterTrainCell == AfterSplit \ {"split", "index_error"}

AfterTraining == {"trained", "predicted", "demo"}

\* C1: the predicted label is 1 exactly when p >= 0.5 (a tie at 0.5 is
\* positive), for the test-set prediction and the single-message prediction
C1_TieBreakPositive ==
    /\ pc = "predicted" =>
          \A i \in 1..Len(p) :
              y_predict[i] = (IF p[i] >= Half THEN 1 ELSE 0)
    /\ pc = "demo" => y_predict = (IF p >= Half THEN 1 ELSE 0)

\* C2: the balanced subset holds as many spam rows as ham rows, whichever
\* class is the majority (stated for data files that hold both classes)
C2_SubsetBalanced ==
    ("spam" \in Range(labels) /\ "ham" \in Range(labels)) =>
        /\ pc = "balanced" =>
              Cardinality({i \in 1..Len(subset) : At(y, subset[i]) = 1})
                = Cardinality({i \in 1..Len(subset) : At(y, subset[i]) = 0})
        /\ pc \in AfterShuffle => CountOf(y, 1) = CountOf(y, 0)

\* train is the prefix 0..numTrain-1, test the numTest positions after it,
\* they are disjoint and have numTrain and numTest elements
IndexSetsOk ==
    /\ train = [i \in 1..numTrain |-> i - 1]
    /\ test = [i \in 1..numTest |-> numTrain + i - 1]
    /\ Range(train) \cap Range(test) = {}
    /\ Cardinality(Range(train)) = numTrain
    /\ Cardinality(Range(test)) = numTest

AllIndicesValid ==
    \A i \in Range(train) \cup Range(test) : InRange(subset, i)

\* C3 as stated: after the split the index sets are the prefix and the
\* following positions, disjoint, of the given sizes, and every index is a
\* valid position of the balanced subset, for every dataset
C3_SplitAlwaysValid ==
    pc \in AfterSplit => IndexSetsOk /\ AllIndicesValid

\* C3 as amended: the index sets are as stated; every index is valid
\* exactly when numTrain + numTest <= len(subset), and then the split has
\* numTrain and numTest rows; otherwise the indexing raises and no test
\* set is produced
C3_SplitValidWhenFits ==
    pc \in AfterSplit =>
        /\ IndexSetsOk
        /\ AllIndicesValid <=> (numTrain + numTest <= Len(subset))
        /\ (pc # "index_error") <=> (numTrain + numTest <= Len(subset))
        /\ pc # "index_error" =>
              /\ Len(X_train) = numTrain /\ Len(y_train) = numTrain
              /\ Len(X_test) = numTest /\ Len(y_test) = numTest
        /\ pc = "index_error" => X_test = Unset /\ y_test = Unset

\* a split that uses the shuffled subset to its last row
C3_Witness ==
    /\ pc = "split"
    /\ numTrain >= 1 /\ numTest >= 1
    /\ numTrain + numTest = Len(subset)

\* C4: at every stage X and y have the same number of rows and the label
\* in row i is the label of the message whose features are in row i
C4_Aligned ==
    /\ pc = "vectorized" =>
          /\ Len(X) = Len(y) /\ Len(y) = Len(docs)
          /\ \A i \in 1..Len(X) :
                y[i] = LabelNum(labels[i])
                  /\ X[i] = Transform(vectorizer, docs[i])
    /\ pc \in {"biased", "balanced"} =>
          /\ Len(X) = Len(y) /\ Len(y) = Len(docs)
          /\ \A i \in 1..Len(X) :
                y[i] = LabelNum(labels[i]) /\ X[i] = FeatureRow(docs[i])
    /\ pc \in AfterShuffle =>
          /\ Len(X) = Len(y) /\ Len(y) = Len(subset)
          /\ \A i \in 1..Len(X) :
                /\ y[i] = LabelNum(At(labels, subset[i]))
                /\ X[i] = FeatureRow(At(docs, subset[i]))
          /\ Len(X_train) = Len(y_train)
          /\ \A i \in 1..Len(X_train) :
                /\ y_train[i] = LabelNum(At(labels, At(subset, train[i])))
                /\ X_train[i] = FeatureRow(At(docs, At(subset, train[i])))
          /\ Len(X_test) = Len(y_test)
          /\ \A i \in 1..Len(X_test) :
                /\ y_test[i] = LabelNum(At(labels, At(subset, test[i])))
                /\ X_test[i] = FeatureRow(At(docs, At(subset, test[i])))

\* a split of a subset the shuffle has permuted, with both labels and
\* different feature rows in it
C4_Witness ==
    /\ pc = "split"
    /\ subset # BalancedSubset(pos, neg)
    /\ \E i, j \in 1..Len(y) : y[i] # y[j] /\ X[i] # X[j]
    /\ Len(X_test) >= 1

BiasRow(r) == Len(r) = Len(vectorizer) + 1 /\ r[1] = 1

CountsOf(r, d) ==
    \A j \in 1..Len(vectorizer) : r[j + 1] = Occurrences(vectorizer[j], d)

\* C5: every row of X, X_train and X_test has n+1 entries, a 1 in column 0
\* and the counts of the vocabulary words, in vocabulary order, behind it;
\* extract_features gives a vector of the same form, as long as theta
C5_BiasColumn ==
    /\ pc \in AfterBias =>
          /\ \A j, k \in 1..Len(vectorizer) :
                j < k => vectorizer[j] < vectorizer[k]
          /\ \A i \in 1..Len(X) :
                /\ BiasRow(X[i])
                /\ CountsOf(X[i], IF pc \in AfterShuffle
                                  THEN At(docs, subset[i]) ELSE docs[i])
          /\ \A i \in 1..Len(X_train) :
                /\ BiasRow(X_train[i])
                /\ CountsOf(X_train[i], At(docs, At(subset, train[i])))
          /\ \A i \in 1..Len(X_test) :
                /\ BiasRow(X_test[i])
                /\ CountsOf(X_test[i], At(docs, At(subset, test[i])))
    /\ pc = "demo" =>
          /\ BiasRow(x)
          /\ CountsOf(x, msg)
          /\ Len(x) = Len(theta)

\* a single message with a word counted twice, after a test set was built
C5_Witness ==
    /\ pc = "demo"
    /\ \E j \in 2..Len(x) : x[j] = 2
    /\ Len(X_test) >= 1

\* theta after k iterations from zeros (each iterate is bound to its value
\* before it is used)
RECURSIVE ThetaAfter(_)
ThetaAfter(k) ==
    IF k = 0 THEN zeros(Cols(X_train))
    ELSE CHOOSE t \in {GDUpdate(X_train, y_train, prev, alpha) :
                          prev \in {ThetaAfter(k - 1)}} : TRUE

\* the cost at the theta that k iterations produced
CostAfter(k) ==
    CHOOSE c \in {Cost(X_train, y_train, t) : t \in {ThetaAfter(k)}} : TRUE

\* C6: the cost history has one entry per iteration, entry i being the cost
\* at the theta iteration i started from, which is the theta the iterations
\* before it produced; a run of k iterations returns k entries
C6_CostHistory ==
    /\ pc = "training" =>
          /\ gd_it <= iters
          /\ Len(gd_J) = gd_it
          /\ gd_theta = ThetaAfter(gd_it)
          /\ \A i \in 1..gd_it :
                gd_J[i] = CostAfter(i - 1)
    /\ pc \in AfterTraining => Len(J_history) = iters
    /\ pc = "trained" =>
          /\ theta = ThetaAfter(iters)
          /\ \A i \in 1..iters :
                J_history[i] = CostAfter(i - 1)

\* a finished run of at least two iterations whose cost changed
C6_Witness ==
    /\ pc = "trained"
    /\ iters >= 2
    /\ J_history[1] # J_history[2]

\* C7: a non-positive iteration count or learning rate is rejected before
\* training starts: no iteration runs, no theta or cost history is produced
C7_InvalidConfigRejected ==
    pc \in AfterTrainCell =>
        /\ (alpha <= 0 \/ iters <= 0) <=> pc = "config_error"
        /\ pc = "config_error" =>
              /\ gd_it = 0 /\ gd_J = Unset /\ gd_theta = Unset
              /\ J_history = Unset
              /\ theta = zeros(n)

\* a rejected request whose only fault is the learning rate
C7_Witness ==
    /\ pc = "config_error"
    /\ alpha <= 0
    /\ iters > 0

\* C8: with rows of X against labels, or columns of X against theta, not
\* matching, training and prediction end in a dimension error and nothing
\* is computed
C8_ShapeMismatchRejected ==
    /\ pc \in {"training", "trained"} => ShapesOk(X_train, y_train, theta)
    /\ pc = "predicted" => \A i \in 1..Len(X_test) : Len(X_test[i]) = Len(theta)
    /\ pc = "demo" => Len(x) = Len(theta)
    /\ pc = "shape_error" =>
          /\ gd_it = 0 /\ gd_J = Unset /\ gd_theta = Unset
          /\ J_history = Unset
          /\ p = Unset /\ y_predict = Unset

\* a training request with a valid configuration and one label too many or
\* too few, rejected
C8_Witness ==
    /\ pc = "shape_error"
    /\ alpha > 0 /\ iters > 0
    /\ Len(X_train) # Len(y_train)

\* gradient descent as a function of its inputs: <<theta, cost history>>
RECURSIVE GDRun(_, _, _, _, _)
GDRun(M, lab, th, a, k) ==
    IF k <= 0 THEN <<th, <<>>>>
    ELSE CHOOSE res \in
             { <<GDUpdate(M, lab, r[1], a), Append(r[2], Cost(M, lab, r[1]))>> :
                 r \in {GDRun(M, lab, th, a, k - 1)} } : TRUE

LabelVec == [i \in 1..Len(labels) |-> LabelNum(labels[i])]

\* C9: the results are functions of the inputs alone: the subset the
\* shuffle leaves is a function of the labels and the fixed seed, whatever
\* state the generator was in before; the theta and the cost history that
\* training returns are a function of X, y, the initial theta, alpha and
\* the iteration count
C9_Deterministic ==
    /\ pc = "shuffled" =>
          subset = Shuffle(BalancedSubset(Nonzero(LabelVec, 1),
                                          Nonzero(LabelVec, 0)),
                           SeedState(1))[1]
    /\ pc = "trained" =>
          <<theta, J_history>>
            = GDRun(X_train, y_train, zeros(Cols(X_train)), alpha, iters)

\* a trained model over a subset the shuffle has permuted
C9_Witness ==
    /\ pc = "trained"
    /\ iters >= 1
    /\ subset # BalancedSubset(pos, neg)

\* C10: encoding a message for prediction never fails; words outside the
\* vocabulary add nothing, so a message with no vocabulary word encodes to
\* 1 followed by zeros; a label is produced
C10_OovIgnored ==
    /\ pc # "shape_error"
    /\ pc = "demo" =>
          /\ Len(x) = Len(vectorizer) + 1
          /\ x[1] = 1
          /\ \A j \in 1..Len(vectorizer) :
                x[j + 1] = Occurrences(vectorizer[j], msg)
          /\ SumSeq(Tail(x))
               = Cardinality({i \in 1..Len(msg) :
                                 msg[i] \in Range(vectorizer)})
          /\ Range(msg) \cap Range(vectorizer) = {} =>
                x = <<1>> \o zeros(Len(vectorizer))
          /\ y_predict \in {0, 1}

\* a non-empty message made only of words outside the vocabulary, labelled
C10_Witness ==
    /\ pc = "demo"
    /\ msg # <<>>
    /\ Range(msg) \cap Range(vectorizer) = {}
    /\ y_predict \in {0, 1}

\* the positions of s where t starts
StartsOf(t, s) ==
    {i \in 1..(Len(s) - Len(t) + 1) : SubSeq(s, i, i + Len(t) - 1) = t}

UrlMark == <<":", "/", "/">>

CurrencySigns(s) == {i \in 1..Len(s) : s[i] \in {"$", "£"}}

\* C11: preprocess returns a string with no upper-case letter in which
\* every '$' and pound sign was replaced by the currency token and every
\* '://' by the url token, none of them remaining; the two tokens differ
\* and lower-casing leaves them as they are
C11_Normalized ==
    /\ CurrencyToken # UrlToken
    /\ lower(CurrencyToken) = CurrencyToken
    /\ lower(UrlToken) = UrlToken
    /\ pc = "pre_done" =>
          /\ \A i \in 1..Len(doc) : doc[i] \notin UpperChars
          /\ CurrencySigns(doc) = {}
          /\ StartsOf(UrlMark, doc) = {}
          /\ Cardinality(StartsOf(CurrencyToken, doc))
               = Cardinality(CurrencySigns(raw))
          /\ Cardinality(StartsOf(UrlToken, doc))
               = Cardinality(StartsOf(UrlMark, raw))
          /\ Len(doc) = Len(raw)
               + (Len(CurrencyToken) - 1) * Cardinality(CurrencySigns(raw))
               + (Len(UrlToken) - Len(UrlMark))
                   * Cardinality(StartsOf(UrlMark, raw))

\* a normalized message that held a pound sign, a '://' and an upper-case
\* letter
C11_Witness ==
    /\ pc = "pre_done"
    /\ \E i \in 1..Len(raw) : raw[i] = "£"
    /\ \E i \in 1..Len(raw) : raw[i] \in UpperChars
    /\ StartsOf(UrlMark, raw) # {}

\* the sizes the notebook's introduction gives for the split
DocumentedTrain == 1000
DocumentedTest == 400

\* C12: the data is split into a training set of 1000 messages and a test
\* set of 400 messages: X_train and y_train have 1000 rows, X_test and
\* y_test have 400 rows
C12_DocumentedSizes ==
    pc = "split" =>
        /\ Len(X_train) = DocumentedTrain
        /\ Len(y_train) = DocumentedTrain
        /\ Len(X_test) = DocumentedTest
        /\ Len(y_test) = DocumentedTest

\* the original row (line of the data file) behind test position i
TestRow(i) == At(subset, numTrain + i - 1)

\* C13: after the shuffle and the re-indexing of X and y, test_docs[i] is
\* the original message whose feature row is X_test[i] and whose label is
\* y_test[i], all three being original row subset[numTrain + i]; no
\* original row appears twice in subset, so no message is in both the
\* training and the test set
C13_TestDocsAligned ==
    /\ pc \in ({"balanced"} \cup AfterShuffle) =>
          \A i, j \in 1..Len(subset) : i # j => subset[i] # subset[j]
    /\ pc = "split" =>
          /\ Len(test_docs) = numTest
          /\ Len(X_test) = numTest
          /\ Len(y_test) = numTest
          /\ \A i \in 1..numTest :
                /\ test_docs[i] = At(docs, TestRow(i))
                /\ X_test[i] = FeatureRow(At(docs, TestRow(i)))
                /\ y_test[i] = LabelNum(At(labels, TestRow(i)))
          /\ {At(subset, train[i]) : i \in 1..Len(train)}
               \cap {At(subset, test[i]) : i \in 1..Len(test)} = {}

\* a split whose first test message is not the message at the test
\* position of the data file
C13_Witness ==
    /\ pc = "split"
    /\ Len(test_docs) >= 1
    /\ test_docs[1] # At(docs, test[1])
    /\ TestRow(1) # test[1]

=============================================================================
